---------------------------- MODULE Spec2Model ----------------------------
(***************************************************************************)
(* resguard: decoding of JSON-like data into dataclass instances           *)
(* (parse_dc_typecheck, parse_dc), inference of dataclasses from sample    *)
(* data (fromdict, create_dc) and rendering of dataclass source (print_dc).*)
(*                                                                         *)
(* Python values are records tagged by their runtime type in field t; an   *)
(* exception that leaves a call is a record with t = "raise".  A message   *)
(* built by an f-string is kept as the record of the values interpolated   *)
(* in it.  typing annotations are records tagged in field k.               *)
(***************************************************************************)
EXTENDS Integers, Sequences, FiniteSets

VARIABLES
    op,                   \* the function called
    cls,                  \* its dataclass argument (cls, dc, dcroot)
    dcname,               \* fromdict's dcname argument
    data,                 \* its data argument
    strict,               \* parse_dc's strict; parse_dc_typecheck's "not ignore_unknows"
    pc,                   \* "call" before the function ran, "done" after
    ret,                  \* what the call returned or raised
    created_dataclasses,  \* the module global _created_dataclasses
    caller_data           \* the contents of the caller's data object, which the call may write to

vars == <<op, cls, dcname, data, strict, pc, ret, created_dataclasses, caller_data>>

---------------------------------------------------------------------------
(* Python values *)

None == [t |-> "NoneType"]
PyInt(n) == [t |-> "int", n |-> n]
PyStr(s) == [t |-> "str", s |-> s]
PyBool(b) == [t |-> "bool", b |-> b]
\* a float with one decimal digit, held in tenths: 1.5 is PyFloat(15)
PyFloat(tenths) == [t |-> "float", tenths |-> tenths]
PyList(items) == [t |-> "list", items |-> items]
\* a dict keeps insertion order: a sequence of <<key, value>> with distinct keys
PyDict(items) == [t |-> "dict", kv |-> items]
\* an instance of a dataclass: its fields in declaration order
Instance(name, attrs) == [t |-> "object", cls |-> name, attrs |-> attrs]
Raise(exc, info) == [t |-> "raise", exc |-> exc, info |-> info]

\* whether a call left by an exception (a typing annotation has no field t)
IsRaise(x) == "t" \in DOMAIN x /\ x.t = "raise"

NoArg == [t |-> "noarg"]

\* F(x) with x evaluated once: a local variable of the code
With(x, F(_)) == CHOOSE y \in {F(v) : v \in {x}} : TRUE

---------------------------------------------------------------------------
(* typing annotations *)

Class(name) == [k |-> "class", name |-> name]
Field(name, type, default) == [name |-> name, type |-> type, default |-> default]
\* a dataclass; default tells whether the field is declared "= None"
Dataclass(name, fields) == [k |-> "dataclass", name |-> name, fields |-> fields]
ListOf(T) == [k |-> "List", args |-> <<T>>]
DictOf(K, V) == [k |-> "Dict", args |-> <<K, V>>]
UnionOf(args) == [k |-> "Union", args |-> args]
TupleOf(args) == [k |-> "Tuple", args |-> args]
LiteralOf(values) == [k |-> "Literal", args |-> values]

NoneType == Class("NoneType")
AnyType == Class("Any")
Optional(T) == UnionOf(<<T, NoneType>>)

is_dataclass(T) == T.k = "dataclass"

FieldNames(dc) == [i \in 1..Len(dc.fields) |-> dc.fields[i].name]

HasField(dc, name) == \E i \in 1..Len(dc.fields) : dc.fields[i].name = name

FieldType(dc, name) ==
    LET i == CHOOSE j \in 1..Len(dc.fields) : dc.fields[j].name = name
    IN  dc.fields[i].type

---------------------------------------------------------------------------
(* Python builtins used as constructors *)

Digits == <<"0", "1", "2", "3", "4", "5", "6", "7", "8", "9">>

IsDigit(s) == \E i \in 1..Len(Digits) : Digits[i] = s

DigitValue(s) == (CHOOSE i \in 1..Len(Digits) : Digits[i] = s) - 1

\* the tenths that print as s ("1.5" is 15), for floats below 10
IsFloatLiteral(s) ==
    \E i, j \in 1..Len(Digits) : s = Digits[i] \o "." \o Digits[j]

FloatLiteralValue(s) ==
    LET p == CHOOSE q \in (1..Len(Digits)) \X (1..Len(Digits)) :
                 s = Digits[q[1]] \o "." \o Digits[q[2]]
    IN  10 * (p[1] - 1) + (p[2] - 1)

RECURSIVE Join(_, _)
Join(sep, strs) ==
    IF strs = <<>> THEN ""
    ELSE IF Len(strs) = 1 THEN strs[1]
    ELSE strs[1] \o sep \o Join(sep, Tail(strs))

\* repr(v); str(v) differs from it on a str only
RECURSIVE repr(_)
repr(v) ==
    CASE v.t = "NoneType" -> "None"
      [] v.t = "int" -> IF v.n \in 0..9 THEN Digits[v.n + 1] ELSE "<int>"
      [] v.t = "bool" -> IF v.b THEN "True" ELSE "False"
      [] v.t = "str" -> "'" \o v.s \o "'"
      [] v.t = "float" ->
            IF v.tenths \in 0..99
            THEN Digits[(v.tenths \div 10) + 1] \o "." \o Digits[(v.tenths % 10) + 1]
            ELSE "<float>"
      [] v.t = "list" ->
            "[" \o Join(", ", [i \in 1..Len(v.items) |-> repr(v.items[i])]) \o "]"
      [] v.t = "dict" ->
            "{" \o Join(", ", [i \in 1..Len(v.kv) |->
                     "'" \o v.kv[i][1] \o "': " \o repr(v.kv[i][2])]) \o "}"
      [] OTHER -> "<object>"

TypeNameOf(v) == v.t

\* int(v)
int(v) ==
    CASE v.t = "int" -> v
      [] v.t = "bool" -> PyInt(IF v.b THEN 1 ELSE 0)
      [] v.t = "float" -> PyInt(v.tenths \div 10)
      [] v.t = "str" ->
            IF IsDigit(v.s) THEN PyInt(DigitValue(v.s))
            ELSE Raise("ValueError",
                       [msg |-> "invalid literal for int() with base 10", arg |-> repr(v)])
      [] OTHER ->
            Raise("TypeError",
                  [msg |-> "int() argument must be a string, a bytes-like object or a real number",
                   arg |-> TypeNameOf(v)])

\* float(v)
float(v) ==
    CASE v.t = "int" -> PyFloat(10 * v.n)
      [] v.t = "bool" -> PyFloat(IF v.b THEN 10 ELSE 0)
      [] v.t = "float" -> v
      [] v.t = "str" ->
            IF IsDigit(v.s) THEN PyFloat(10 * DigitValue(v.s))
            ELSE IF IsFloatLiteral(v.s) THEN PyFloat(FloatLiteralValue(v.s))
            ELSE Raise("ValueError",
                       [msg |-> "could not convert string to float", arg |-> repr(v)])
      [] OTHER ->
            Raise("TypeError",
                  [msg |-> "float() argument must be a string or a real number",
                   arg |-> TypeNameOf(v)])

\* bool(v): the truth value
bool(v) ==
    CASE v.t = "NoneType" -> PyBool(FALSE)
      [] v.t = "int" -> PyBool(v.n # 0)
      [] v.t = "bool" -> v
      [] v.t = "float" -> PyBool(v.tenths # 0)
      [] v.t = "str" -> PyBool(v.s # "")
      [] v.t = "list" -> PyBool(v.items # <<>>)
      [] v.t = "dict" -> PyBool(v.kv # <<>>)
      [] OTHER -> PyBool(TRUE)

\* str(v)
str(v) == IF v.t = "str" THEN v ELSE PyStr(repr(v))

\* the characters of the strings of the model, for "for x in v" over a str
Chars(s) == IF s = "" THEN <<>> ELSE <<s>>

\* iter(v): the list "for x in v" runs over, or the TypeError
Iterate(v) ==
    CASE v.t = "list" -> v
      [] v.t = "dict" -> PyList([i \in 1..Len(v.kv) |-> PyStr(v.kv[i][1])])
      [] v.t = "str" -> PyList([i \in 1..Len(Chars(v.s)) |-> PyStr(Chars(v.s)[i])])
      [] OTHER -> Raise("TypeError", [msg |-> "object is not iterable", arg |-> TypeNameOf(v)])

\* dict(v)
dict(v) ==
    CASE v.t = "dict" -> v
      [] v.t = "list" /\ v.items = <<>> -> PyDict(<<>>)
      [] v.t = "str" /\ v.s = "" -> PyDict(<<>>)
      [] v.t = "str" /\ v.s # "" ->
            Raise("ValueError",
                  [msg |-> "dictionary update sequence element #0 has length 1; 2 is required",
                   arg |-> repr(v)])
      [] OTHER ->
            Raise("TypeError",
                  [msg |-> "cannot convert to a dictionary", arg |-> TypeNameOf(v)])

---------------------------------------------------------------------------
(* dicts and dataclasses *)

\* key in d, d[key]: d's items are a sequence of <<key, value>>
HasKey(items, key) == \E i \in 1..Len(items) : items[i][1] = key

Lookup(items, key) ==
    LET i == CHOOSE j \in 1..Len(items) : items[j][1] = key
    IN  items[i][2]

\* d[key] = value on an insertion-ordered dict
SetItem(items, key, value) ==
    IF HasKey(items, key)
    THEN [i \in 1..Len(items) |-> IF items[i][1] = key THEN <<key, value>> ELSE items[i]]
    ELSE Append(items, <<key, value>>)

\* del d[key]
DelItem(items, key) == SelectSeq(items, LAMBDA item : item[1] # key)

\* the generated __init__ of a dataclass called as dc(**kwargs), every key of
\* kwargs being a field: a field not given takes its default (None), and a
\* field with no default that is not given is a TypeError
InitKw(dc, kwargs) ==
    LET n == Len(dc.fields)
        missing == SelectSeq(dc.fields, LAMBDA f : ~HasKey(kwargs, f.name) /\ ~f.default)
    IN  IF missing # <<>>
        THEN Raise("TypeError",
                   [msg |-> "__init__() missing required positional arguments",
                    cls |-> dc.name,
                    missing |-> [i \in 1..Len(missing) |-> missing[i].name]])
        ELSE Instance(dc.name,
                 [i \in 1..n |->
                     <<dc.fields[i].name,
                       IF HasKey(kwargs, dc.fields[i].name)
                       THEN Lookup(kwargs, dc.fields[i].name)
                       ELSE None>>])

\* a type object called on one positional argument, T(v)
Call(T, v) ==
    CASE T = Class("int") -> int(v)
      [] T = Class("float") -> float(v)
      [] T = Class("bool") -> bool(v)
      [] T = Class("str") -> str(v)
      [] T = Class("dict") -> dict(v)
      [] T = Class("list") -> Iterate(v)
      [] T.k = "dataclass" ->
            IF T.fields = <<>>
            THEN Raise("TypeError",
                       [msg |-> "__init__() takes 1 positional argument but 2 were given",
                        cls |-> T.name])
            ELSE InitKw(T, << <<T.fields[1].name, v>> >>)
      [] OTHER ->
            Raise("TypeError", [msg |-> "cannot instantiate", type |-> T])

---------------------------------------------------------------------------
(* keys *)

\* the keys of the model that begin with "__"
DunderKeys == {"__v", "__w"}

\* k.startswith("__"), re's "^__"
StartsWithDunder(k) == k \in DunderKeys

\* re.sub(r"^__", f"_{cls.__name__}__", k): Python's name mangling
Mangle(clsname, k) == IF StartsWithDunder(k) THEN "_" \o clsname \o k ELSE k

---------------------------------------------------------------------------
(* unpack_union *)

KeptArg(a) == a # NoneType /\ a # AnyType

unpack_union(union) ==
    IF "args" \in DOMAIN union
    THEN LET kept == SelectSeq(union.args, KeptArg)
         IN  IF kept = <<>>
             THEN Raise("TypeError", [msg |-> "Cannot take a Union of no types."])
             ELSE IF Len(kept) = 1 THEN kept[1]
             ELSE UnionOf(kept)
    ELSE union

---------------------------------------------------------------------------
(* parse_dc *)

UnknownFieldNoTypecheck(dc, k) ==
    Raise("TypeError",
          [msg |-> "Unknow field {k} for {dc.__name__}({fields_})",
           key |-> k, cls |-> dc.name, fields |-> FieldNames(dc)])

\* a variant that binds cpy to the data object itself
SameObject(d) == [same |-> TRUE, kv |-> d.kv]

\* line 637, data.copy(): another dict object that holds the same items
copy(d) == [same |-> FALSE, kv |-> d.kv]

RECURSIVE parse_dc(_, _, _)
RECURSIVE parse_dc_loop(_, _, _, _, _)

\* the for loop from the i-th item of data on, cpy being the copy so far:
\* the copy when the loop ends, or the exception that leaves it
parse_dc_loop(dc, items, i, cpy, strict_) ==
    IF i > Len(items) THEN PyDict(cpy)
    ELSE
      LET k0 == items[i][1]
          v == items[i][2]
          unknown == ~HasField(dc, k0)
          renamed == unknown /\ StartsWithDunder(k0)
          k == IF renamed THEN "_" \o dc.name \o k0 ELSE k0
          cpy1 == IF renamed THEN DelItem(SetItem(cpy, k, v), k0) ELSE cpy
      IN  IF unknown /\ ~renamed
          THEN IF strict_
               THEN UnknownFieldNoTypecheck(dc, k0)
               ELSE parse_dc_loop(dc, items, i + 1, DelItem(cpy, k0), strict_)
          ELSE IF ~HasField(dc, k)
          THEN Raise("KeyError", [key |-> k])
          ELSE IF is_dataclass(FieldType(dc, k))
          THEN LET sub == parse_dc(FieldType(dc, k), v, TRUE)
               IN  IF IsRaise(sub) THEN sub
                   ELSE parse_dc_loop(dc, items, i + 1, SetItem(cpy1, k, sub), strict_)
          ELSE parse_dc_loop(dc, items, i + 1, cpy1, strict_)

parse_dc(dc, data_, strict_) ==
    IF data_.t # "dict"
    THEN Raise("AttributeError", [msg |-> "object has no attribute", arg |-> TypeNameOf(data_)])
    ELSE LET cpy == parse_dc_loop(dc, data_.kv, 1, copy(data_).kv, strict_)
         IN  IF IsRaise(cpy) THEN cpy ELSE InitKw(dc, cpy.kv)

RECURSIVE parse_dc_data(_, _, _)
RECURSIVE parse_dc_data_loop(_, _, _, _, _, _)

\* what the object a key of the mapping refers to holds after a call on it
NestedWritten(mem, k, held) == IF HasKey(mem, k) THEN SetItem(mem, k, held) ELSE mem

\* the writes of the for loop from the i-th item on, seen from the data
\* object: mem is what data holds so far, and a write to cpy reaches it only
\* when cpy is the same object; the nested call may write to the object v
parse_dc_data_loop(dc, items, i, same, mem, strict_) ==
    IF i > Len(items) THEN mem
    ELSE
      LET k0 == items[i][1]
          v == items[i][2]
          unknown == ~HasField(dc, k0)
          renamed == unknown /\ StartsWithDunder(k0)
          k == IF renamed THEN "_" \o dc.name \o k0 ELSE k0
          mem1 == IF renamed /\ same THEN DelItem(SetItem(mem, k, v), k0) ELSE mem
      IN  IF unknown /\ ~renamed
          THEN IF strict_ THEN mem
               ELSE parse_dc_data_loop(dc, items, i + 1, same,
                                       IF same THEN DelItem(mem, k0) ELSE mem, strict_)
          ELSE IF ~HasField(dc, k) THEN mem1
          ELSE IF is_dataclass(FieldType(dc, k))
          THEN LET sub == parse_dc(FieldType(dc, k), v, TRUE)
                   held == parse_dc_data(FieldType(dc, k), v, TRUE)
                   mem2 == NestedWritten(NestedWritten(mem1, k0, held), k, held)
               IN  IF IsRaise(sub) THEN mem2
                   ELSE parse_dc_data_loop(dc, items, i + 1, same,
                                           IF same THEN SetItem(mem2, k, sub) ELSE mem2, strict_)
          ELSE parse_dc_data_loop(dc, items, i + 1, same, mem1, strict_)

\* what the object given as data holds after parse_dc(dc, data, strict)
\* returned or raised
parse_dc_data(dc, data_, strict_) ==
    IF data_.t # "dict" THEN data_
    ELSE PyDict(parse_dc_data_loop(dc, data_.kv, 1, copy(data_).same, data_.kv, strict_))

---------------------------------------------------------------------------
(* parse_dc_typecheck *)

ScalarNames == {"float", "int", "bool", "str"}

\* the number a numeric value compares as, in tenths
IsNumber(v) == v.t \in {"int", "bool", "float"}

Tenths(v) ==
    CASE v.t = "int" -> 10 * v.n
      [] v.t = "bool" -> IF v.b THEN 10 ELSE 0
      [] OTHER -> v.tenths

\* a == b
PyEq(a, b) == IF IsNumber(a) /\ IsNumber(b) THEN Tenths(a) = Tenths(b) ELSE a = b

UnknownField(cls_, k, names) ==
    Raise("TypeError",
          [msg |-> "Unknow field {} for {}. Expected one of ({})",
           key |-> k, cls |-> cls_.name, expected |-> names])

\* [T(x) for x in items] from the i-th element on: the list, or the first exception
RECURSIVE CallEach(_, _, _, _)
CallEach(T, items, i, acc) ==
    IF i > Len(items) THEN PyList(acc)
    ELSE LET x == Call(T, items[i])
         IN  IF IsRaise(x) THEN x ELSE CallEach(T, items, i + 1, Append(acc, x))

\* ', '.join(v)
JoinValues(v) ==
    LET it == Iterate(v)
    IN  IF IsRaise(it) THEN it
        ELSE IF \E i \in 1..Len(it.items) : it.items[i].t # "str"
        THEN LET i == CHOOSE j \in 1..Len(it.items) :
                          /\ it.items[j].t # "str"
                          /\ \A h \in 1..(j - 1) : it.items[h].t = "str"
             IN  Raise("TypeError",
                       [msg |-> "sequence item {}: expected str instance, {} found",
                        index |-> i - 1, found |-> TypeNameOf(it.items[i])])
        ELSE PyStr(Join(", ", [i \in 1..Len(it.items) |-> it.items[i].s]))

\* lines 453-458
LiteralField(cls_, literals, v) ==
    IF \E i \in 1..Len(literals) : PyEq(v, literals[i])
    THEN v
    ELSE Raise("TypeError",
               [msg |-> "while creating Literal for dataclass {}, it seems that {} is not in literal values {}",
                cls |-> cls_.name, value |-> v, literals |-> literals])

\* a variant without the except clause of lines 464-467
ScalarFieldUncaught(cls_, concrete_typev, v) == Call(concrete_typev, v)

\* lines 461-467
ScalarField(cls_, concrete_typev, v) ==
    With(Call(concrete_typev, v), LAMBDA r :
        IF IsRaise(r) /\ r.exc = "ValueError"
        THEN Raise("TypeError",
                   [msg |-> "in dataclass {}, {} is not {}: {}",
                    cls |-> cls_.name, value |-> repr(v),
                    type |-> concrete_typev.name, inner |-> r.info])
        ELSE r)

\* line 470: [list_subtype(x) for x in v]
ListComprehension(list_subtype, v) ==
    With(Iterate(v), LAMBDA it :
        IF IsRaise(it) THEN it ELSE CallEach(list_subtype, it.items, 1, <<>>))

\* lines 471-474: the except clause
ListError(cls_, list_subtype, v, e) ==
    With(JoinValues(v), LAMBDA joined :
        IF IsRaise(joined) THEN joined
        ELSE Raise("TypeError",
                   [msg |-> "in dataclass {} while trying to construct a list of type {} with values [{}]: {}",
                    cls |-> cls_.name, type |-> list_subtype,
                    values |-> joined.s, inner |-> e.info]))

\* lines 468-474
ListField(cls_, list_subtype, v) ==
    With(ListComprehension(list_subtype, v), LAMBDA r :
        IF IsRaise(r) /\ r.exc = "ValueError"
        THEN ListError(cls_, list_subtype, v, r)
        ELSE r)

\* {K(k): V(v) for k, v in items} from the i-th pair on (the key is evaluated
\* before the value): the dict, or the first exception
RECURSIVE CallPairs(_, _, _, _, _)
CallPairs(K, V, items, i, acc) ==
    IF i > Len(items) THEN [t |-> "dict", pairs |-> acc]
    ELSE LET key == Call(K, PyStr(items[i][1]))
             val == Call(V, items[i][2])
         IN  IF IsRaise(key) THEN key
             ELSE IF IsRaise(val) THEN val
             ELSE CallPairs(K, V, items, i + 1,
                     IF \E j \in 1..Len(acc) : PyEq(acc[j][1], key)
                     THEN [j \in 1..Len(acc) |->
                             IF PyEq(acc[j][1], key) THEN <<acc[j][1], val>> ELSE acc[j]]
                     ELSE Append(acc, <<key, val>>))

\* lines 475-476
DictField(dict_subtype_key, dict_subtype_val, v) ==
    IF v.t # "dict"
    THEN Raise("AttributeError", [msg |-> "object has no attribute 'items'", arg |-> TypeNameOf(v)])
    ELSE CallPairs(dict_subtype_key, dict_subtype_val, v.kv, 1, <<>>)

\* lines 477-483
CallableField(cls_, concrete_typev, v) ==
    With(Call(concrete_typev, v), LAMBDA r :
        IF IsRaise(r) /\ r.exc = "TypeError"
        THEN Raise("TypeError",
                   [msg |-> " in dataclass {} while trying to construct value from {}({}): {}",
                    cls |-> cls_.name, type |-> concrete_typev.name,
                    value |-> repr(v), inner |-> r.info])
        ELSE r)

\* a variant in which the frame puts its schema around the error of a nested record
ConcreteFieldWithContext(cls_, concrete_typev, v) ==
    IF is_dataclass(concrete_typev)
    THEN With(parse_dc(concrete_typev, v, TRUE), LAMBDA sub :
            IF IsRaise(sub)
            THEN Raise("TypeError", [msg |-> "in dataclass {}: {}",
                                     cls |-> cls_.name, inner |-> sub.info])
            ELSE sub)
    ELSE IF concrete_typev.k # "class"
    THEN Raise("TypeError", [msg |-> "issubclass() arg 1 must be a class"])
    ELSE IF concrete_typev.name \in ScalarNames THEN ScalarField(cls_, concrete_typev, v)
    ELSE IF concrete_typev.name \in {"list", "dict"}
    THEN Raise("UnboundLocalError", [msg |-> "referenced before assignment"])
    ELSE CallableField(cls_, concrete_typev, v)

\* lines 459-487 for a concrete_typev that did not come from List[...] or Dict[...]
ConcreteField(cls_, concrete_typev, v) ==
    IF is_dataclass(concrete_typev) THEN parse_dc(concrete_typev, v, TRUE)
    ELSE IF concrete_typev.k # "class"
    THEN Raise("TypeError", [msg |-> "issubclass() arg 1 must be a class"])
    ELSE IF concrete_typev.name \in ScalarNames THEN ScalarField(cls_, concrete_typev, v)
    ELSE IF concrete_typev.name \in {"list", "dict"}
    THEN \* a bare list or dict annotation: list_subtype, dict_subtype_key were never bound
         Raise("UnboundLocalError", [msg |-> "referenced before assignment"])
    ELSE CallableField(cls_, concrete_typev, v)

\* lines 421-487: the value stored in res[k] for a value v that is not None,
\* or the exception raised
ConvertField(cls_, typev, v) ==
    CASE typev.k = "List" ->
            With(unpack_union(typev), LAMBDA list_subtype :
                IF IsRaise(list_subtype) THEN list_subtype
                ELSE ListField(cls_, list_subtype, v))
      [] typev.k = "Dict" -> DictField(typev.args[1], typev.args[2], v)
      [] typev.k = "Literal" -> LiteralField(cls_, typev.args, v)
      [] typev.k = "Tuple" ->
            Raise("NotImplementedError",
                  [msg |-> "Can't find a way to determine concrete type for {}", value |-> v])
      [] OTHER ->
            With(IF typev.k = "Union" THEN unpack_union(typev) ELSE typev,
                 LAMBDA concrete_typev :
                    IF IsRaise(concrete_typev) THEN concrete_typev
                    ELSE ConcreteField(cls_, concrete_typev, v))

\* a variant that skips a null value before it looks the key up
TypecheckItemNullFirst(cls_, k0, v, ignore_unknows) ==
    With(Mangle(cls_.name, k0), LAMBDA k :
        IF v = None THEN [t |-> "continue"]
        ELSE IF ~HasField(cls_, k)
        THEN IF ignore_unknows THEN [t |-> "continue"]
             ELSE UnknownField(cls_, k, FieldNames(cls_))
        ELSE With(FieldType(cls_, k), LAMBDA typev :
             With(ConvertField(cls_, typev, v), LAMBDA x :
                 IF IsRaise(x) THEN x ELSE [t |-> "store", key |-> k, value |-> x])))

\* one round of the for loop, lines 408-487, on the item (k0, v): what it does
\* to res, or the exception that leaves the loop
TypecheckItem(cls_, k0, v, ignore_unknows) ==
    With(Mangle(cls_.name, k0), LAMBDA k :
        IF ~HasField(cls_, k)
        THEN IF ignore_unknows THEN [t |-> "continue"]
             ELSE UnknownField(cls_, k, FieldNames(cls_))
        ELSE IF v = None THEN [t |-> "continue"]
        ELSE With(FieldType(cls_, k), LAMBDA typev :
             With(ConvertField(cls_, typev, v), LAMBDA x :
                 IF IsRaise(x) THEN x ELSE [t |-> "store", key |-> k, value |-> x])))

\* res after one round of the loop
Store(res, step) ==
    IF step.t = "store" THEN SetItem(res, step.key, step.value) ELSE res

\* the for loop from the i-th item on, res being the accumulator so far
RECURSIVE typecheck_loop(_, _, _, _, _)
typecheck_loop(cls_, items, i, res, ignore_unknows) ==
    IF i > Len(items) THEN PyDict(res)
    ELSE With(TypecheckItem(cls_, items[i][1], items[i][2], ignore_unknows), LAMBDA step :
            IF IsRaise(step) THEN step
            ELSE With(Store(res, step), LAMBDA res2 :
                 With(i + 1, LAMBDA j :
                     typecheck_loop(cls_, items, j, res2, ignore_unknows))))

\* a variant that lets the constructor's own TypeError through
ConstructUnwrapped(cls_, res, data_) == InitKw(cls_, res)

\* lines 488-493
Construct(cls_, res, data_) ==
    LET r == InitKw(cls_, res)
    IN  IF IsRaise(r) /\ r.exc = "TypeError"
        THEN Raise("TypeError",
                   [msg |-> "while calling {}(**data) with this data {}: {}",
                    cls |-> cls_.name, data |-> data_, inner |-> r.info])
        ELSE r

parse_dc_typecheck(cls_, data_, ignore_unknows) ==
    IF data_.t # "dict"
    THEN Raise("AttributeError", [msg |-> "object has no attribute 'items'", arg |-> TypeNameOf(data_)])
    ELSE LET res == typecheck_loop(cls_, data_.kv, 1, <<>>, ignore_unknows)
         IN  IF IsRaise(res) THEN res ELSE Construct(cls_, res.kv, data_)

\* the type line 459 tests with is_dataclass for the item (k0, v), NoArg when
\* the loop does not come to that line for it
NestedType(cls_, k0, v) ==
    With(Mangle(cls_.name, k0), LAMBDA k :
        IF ~HasField(cls_, k) \/ v = None THEN NoArg
        ELSE With(FieldType(cls_, k), LAMBDA typev :
             With(IF typev.k = "Union" THEN unpack_union(typev) ELSE typev, LAMBDA T :
                 IF is_dataclass(T) THEN T ELSE NoArg)))

\* the writes of the for loop from the i-th item on, seen from the data
\* object: res is a dict of its own, so only the nested parse_dc call of
\* line 460 is given an object that data holds
RECURSIVE typecheck_data_loop(_, _, _, _, _)
typecheck_data_loop(cls_, items, i, mem, ignore_unknows) ==
    IF i > Len(items) THEN mem
    ELSE With(NestedType(cls_, items[i][1], items[i][2]), LAMBDA T :
         With(IF T = NoArg THEN mem
              ELSE SetItem(mem, items[i][1], parse_dc_data(T, items[i][2], TRUE)), LAMBDA mem1 :
         With(TypecheckItem(cls_, items[i][1], items[i][2], ignore_unknows), LAMBDA step :
             IF IsRaise(step) THEN mem1
             ELSE With(i + 1, LAMBDA j :
                      typecheck_data_loop(cls_, items, j, mem1, ignore_unknows)))))

\* what the object given as data holds after parse_dc_typecheck returned or raised
parse_dc_typecheck_data(cls_, data_, ignore_unknows) ==
    IF data_.t # "dict" THEN data_
    ELSE PyDict(typecheck_data_loop(cls_, data_.kv, 1, data_.kv, ignore_unknows))

---------------------------------------------------------------------------
(* reqguard.parse_dc: the typed decode of the older module, which handles a
   dataclass field by calling itself and has no policy argument *)

RECURSIVE reqguard_parse_dc(_, _)

\* reqguard.py lines 271-326: as lines 421-487 of resguard.py, but for line
\* 301, res[k] = parse_dc(concrete_typev, v), which is the typed decode itself
reqguard_ConvertField(cls_, typev, v) ==
    With(IF typev.k = "Union" THEN unpack_union(typev) ELSE typev, LAMBDA concrete_typev :
        IF ~IsRaise(concrete_typev) /\ is_dataclass(concrete_typev)
        THEN reqguard_parse_dc(concrete_typev, v)
        ELSE ConvertField(cls_, typev, v))

\* one round of the for loop, reqguard.py lines 261-326
reqguard_item(cls_, k0, v) ==
    With(Mangle(cls_.name, k0), LAMBDA k :
        IF ~HasField(cls_, k) THEN UnknownField(cls_, k, FieldNames(cls_))
        ELSE IF v = None THEN [t |-> "continue"]
        ELSE With(FieldType(cls_, k), LAMBDA typev :
             With(reqguard_ConvertField(cls_, typev, v), LAMBDA x :
                 IF IsRaise(x) THEN x ELSE [t |-> "store", key |-> k, value |-> x])))

RECURSIVE reqguard_loop(_, _, _, _)
reqguard_loop(cls_, items, i, res) ==
    IF i > Len(items) THEN PyDict(res)
    ELSE With(reqguard_item(cls_, items[i][1], items[i][2]), LAMBDA step :
            IF IsRaise(step) THEN step
            ELSE With(Store(res, step), LAMBDA res2 :
                 With(i + 1, LAMBDA j : reqguard_loop(cls_, items, j, res2))))

reqguard_parse_dc(cls_, data_) ==
    IF data_.t # "dict"
    THEN Raise("AttributeError", [msg |-> "object has no attribute 'items'", arg |-> TypeNameOf(data_)])
    ELSE LET res == reqguard_loop(cls_, data_.kv, 1, <<>>)
         IN  IF IsRaise(res) THEN res ELSE Construct(cls_, res.kv, data_)

---------------------------------------------------------------------------
(* create_dc, fromdict *)

\* the keys of the model that are not identifiers (str.isidentifier is False)
NonIdentifiers == {"a b"}

\* the keys of the model that are keywords (keyword.iskeyword)
Keywords == {"class"}

\* dataclasses.make_dataclass(cls_name, fields) for fields of (name, type):
\* every field name must be an identifier and no keyword
make_dataclass(cls_name, fields) ==
    IF \E i \in 1..Len(fields) : fields[i][1] \in NonIdentifiers \cup Keywords
    THEN LET i == CHOOSE j \in 1..Len(fields) :
                      /\ fields[j][1] \in NonIdentifiers \cup Keywords
                      /\ \A h \in 1..(j - 1) : fields[h][1] \notin NonIdentifiers \cup Keywords
         IN  Raise("TypeError",
                   [msg |-> IF fields[i][1] \in NonIdentifiers
                            THEN "Field names must be valid identifiers"
                            ELSE "Field names must not be keywords",
                    name |-> fields[i][1]])
    ELSE Dataclass(cls_name, [i \in 1..Len(fields) |-> Field(fields[i][1], fields[i][2], FALSE)])

\* a variant that keeps the entry a name already has
create_dc_keep_first(dcname_, fields, reg) ==
    LET dc == make_dataclass(dcname_, fields)
    IN  IF IsRaise(dc) \/ HasKey(reg, dcname_) THEN [ret |-> dc, reg |-> reg]
        ELSE [ret |-> dc, reg |-> SetItem(reg, dcname_, dc)]

\* create_dc with the registry it writes: [ret, reg]
create_dc(dcname_, fields, reg) ==
    LET dc == make_dataclass(dcname_, fields)
    IN  IF IsRaise(dc) THEN [ret |-> dc, reg |-> reg]
        ELSE [ret |-> dc, reg |-> SetItem(reg, dcname_, dc)]

\* type(v)
TypeOf(v) == Class(v.t)

\* a variant that types every non-empty list by its first element
ListFieldTypeOfFirst(v) ==
    IF Len(v.items) = 0 THEN ListOf(AnyType) ELSE ListOf(TypeOf(v.items[1]))

\* lines 528-533: the annotation of a list value
ListFieldType(v) ==
    IF Len(v.items) = 0 THEN ListOf(AnyType)
    ELSE IF Cardinality({TypeOf(v.items[i]) : i \in 1..Len(v.items)}) = 1
    THEN ListOf(TypeOf(v.items[1]))
    ELSE TupleOf([i \in 1..Len(v.items) |-> TypeOf(v.items[i])])

RECURSIVE fromdict(_, _, _)
RECURSIVE fromdict_loop(_, _, _, _)

\* the for loop from the i-th item on: [ret |-> dc_fields or the exception, reg]
fromdict_loop(items, i, dc_fields, reg) ==
    IF i > Len(items) THEN [ret |-> PyDict(dc_fields), reg |-> reg]
    ELSE
      LET k == items[i][1]
          v == items[i][2]
      IN  IF v.t = "dict"
          THEN LET child == fromdict(k, v, reg)
               IN  IF IsRaise(child.ret) THEN child
                   ELSE fromdict_loop(items, i + 1, Append(dc_fields, <<k, child.ret>>), child.reg)
          ELSE IF v.t = "list"
          THEN fromdict_loop(items, i + 1, Append(dc_fields, <<k, ListFieldType(v)>>), reg)
          ELSE IF v.t \in ScalarNames
          THEN fromdict_loop(items, i + 1, Append(dc_fields, <<k, TypeOf(v)>>), reg)
          ELSE fromdict_loop(items, i + 1, dc_fields, reg)

\* fromdict with the registry threaded through: [ret |-> the dataclass or the
\* exception, reg |-> _created_dataclasses afterwards]
fromdict(dcname_, data_, reg) ==
    IF data_.t # "dict"
    THEN [ret |-> Raise("AttributeError",
                        [msg |-> "object has no attribute 'items'", arg |-> TypeNameOf(data_)]),
          reg |-> reg]
    ELSE LET l == fromdict_loop(data_.kv, 1, <<>>, reg)
         IN  IF IsRaise(l.ret) THEN l ELSE create_dc(dcname_, l.ret.kv, l.reg)

---------------------------------------------------------------------------
(* print_dc: the text is the sequence of its lines, each ended by "\n" *)

\* type_.__name__
TypeName(type_) == IF type_.k \in {"class", "dataclass"} THEN type_.name ELSE type_.k

\* a variant that writes the new definition after what s held
AppendDefinition(new_dc, s) == s \o <<"", "">> \o new_dc

\* lines 568-572: new_s holds new_dc, "\n\n", then what s held
PrependDefinition(new_dc, s) == new_dc \o <<"", "">> \o s

FieldLine(name, type_) == "   " \o name \o ": " \o TypeName(type_)

RECURSIVE print_dc(_)
RECURSIVE print_dc_loop(_, _, _)

\* the for loop from the i-th field on, s being the text so far
print_dc_loop(dcroot, i, s) ==
    IF i > Len(dcroot.fields) THEN s
    ELSE LET f == dcroot.fields[i]
             s1 == IF is_dataclass(f.type) THEN PrependDefinition(print_dc(f.type), s) ELSE s
         IN  print_dc_loop(dcroot, i + 1, Append(s1, FieldLine(f.name, f.type)))

print_dc(dcroot) ==
    print_dc_loop(dcroot, 1, <<"@dataclass", "class " \o dcroot.name \o ":">>)

---------------------------------------------------------------------------
(* the inputs of the model *)

\* at most this many items in the raw mapping given to a decode call
MaxKeys == 2
\* at most this many items in the mapping given to fromdict
MaxInferKeys == 2
\* at most this many elements in the value of a List field
MaxListLen == 3
\* at most this many fields in the dataclass given to print_dc
MaxPrintFields == 3

IntT == Class("int")
StrT == Class("str")

\* the declared schemas of the decode calls
AB == Dataclass("AB", <<Field("a", StrT, FALSE), Field("b", IntT, FALSE)>>)
Opt == Dataclass("Opt", <<Field("a", Optional(IntT), FALSE), Field("b", Optional(IntT), TRUE)>>)
Inner == Dataclass("Inner", <<Field("a", StrT, FALSE)>>)
Outer == Dataclass("Outer", <<Field("a", Inner, FALSE), Field("b", IntT, TRUE)>>)
Priv == Dataclass("Priv", <<Field("_Priv__v", IntT, FALSE), Field("a", StrT, TRUE)>>)
Misc == Dataclass("Misc", <<Field("a", LiteralOf(<<PyInt(0), PyInt(1)>>), TRUE),
                            Field("b", DictOf(StrT, IntT), TRUE)>>)

DeclaredSchemas == {AB, Opt, Inner, Outer, Priv, Misc}

DecodeKeys == {"a", "b", "c", "__v"}

RawValues ==
    {None, PyInt(1), PyStr("1"), PyStr("x"), PyBool(TRUE),
     PyList(<<PyInt(1)>>), PyDict(<< <<"a", PyInt(1)>> >>)}

\* the sequences of at most n items over keys and values, with distinct keys
RECURSIVE Mappings(_, _, _)
Mappings(keys, values, n) ==
    IF n = 0 THEN {<<>>}
    ELSE LET shorter == Mappings(keys, values, n - 1)
         IN  shorter \cup
             UNION {{Append(m, <<k, v>>) : k \in {x \in keys : ~HasKey(m, x)}, v \in values} :
                      m \in {x \in shorter : Len(x) = n - 1}}

DecodeData == {PyDict(m) : m \in Mappings(DecodeKeys, RawValues, MaxKeys)}

\* the schemas and values of the decode calls on a List field
ListSchemas ==
    {Dataclass("L", <<Field("a", ListOf(IntT), FALSE)>>),
     Dataclass("L", <<Field("a", ListOf(StrT), FALSE)>>),
     Dataclass("L", <<Field("a", ListOf(Optional(IntT)), FALSE)>>)}

ListElems == {None, PyInt(1), PyStr("1"), PyStr("x")}

RECURSIVE Lists(_, _)
Lists(elems, n) ==
    IF n = 0 THEN {<<>>}
    ELSE LET shorter == Lists(elems, n - 1)
         IN  shorter \cup {Append(l, e) : l \in {x \in shorter : Len(x) = n - 1}, e \in elems}

ListData == {PyDict(<< <<"a", PyList(l)>> >>) : l \in Lists(ListElems, MaxListLen)}

\* the schemas and values of the decode calls on a Dict field
DictSchemas ==
    {Dataclass("D", <<Field("a", DictOf(StrT, IntT), FALSE)>>),
     Dataclass("D", <<Field("a", DictOf(IntT, IntT), FALSE)>>)}

DictKeys == {"1", "k"}

DictValues == {PyInt(1), PyStr("x")}

DictData == {PyDict(<< <<"a", PyDict(m)>> >>) : m \in Mappings(DictKeys, DictValues, MaxKeys)}

\* the schemas and values of the decode calls on records nested in records
Leaf == Dataclass("Leaf", <<Field("a", IntT, FALSE)>>)
Mid == Dataclass("Mid", <<Field("leaf", Leaf, FALSE), Field("b", IntT, TRUE)>>)
Top == Dataclass("Top", <<Field("mid", Mid, FALSE)>>)

NestedSchemas == {Mid, Top}

LeafMaps ==
    {PyDict(<<>>),
     PyDict(<< <<"a", PyInt(1)>> >>),
     PyDict(<< <<"a", PyStr("x")>> >>),
     PyDict(<< <<"a", PyInt(1)>>, <<"c", PyInt(1)>> >>),
     PyDict(<< <<"a", PyStr("1")>>, <<"__v", PyInt(1)>> >>)}

MidMaps ==
    {PyDict(<< <<"leaf", m>> >>) : m \in LeafMaps \cup {PyInt(1)}}
    \cup {PyDict(<< <<"leaf", m>>, <<"c", PyInt(1)>> >>) : m \in LeafMaps}
    \cup {PyDict(<< <<"leaf", PyDict(<< <<"a", PyInt(1)>> >>)>>, <<"b", PyStr("x")>> >>)}

TopMaps == {PyDict(<< <<"mid", m>> >>) : m \in MidMaps}

NestedData == MidMaps \cup TopMaps

\* the samples given to fromdict
InferKeys == {"a", "__v", "a b"}

InferValues ==
    {None, PyInt(1), PyStr("x"), PyBool(TRUE), PyFloat(15),
     PyList(<<>>), PyList(<<PyInt(1)>>), PyList(<<PyInt(1), PyStr("x")>>),
     PyDict(<<>>), PyDict(<< <<"a", PyInt(1)>> >>), PyDict(<< <<"__v", PyInt(1)>> >>),
     PyDict(<< <<"a", PyDict(<< <<"a", PyStr("x")>> >>)>>, <<"b", PyList(<<>>)>> >>),
     PyDict(<< <<"a", None>> >>)}

InferData == {PyDict(m) : m \in Mappings(InferKeys, InferValues, MaxInferKeys)}

InferNames == {"Root", "a"}

\* the dataclasses given to print_dc
Bar == Dataclass("Bar", <<Field("x", IntT, FALSE)>>)
Foo == Dataclass("Foo", <<Field("y", StrT, FALSE), Field("bar", Bar, FALSE)>>)
Baz == Dataclass("Baz", <<Field("z", IntT, FALSE)>>)

PrintTypes == {IntT, StrT, Bar, Foo, Baz}

PrintFieldNames == <<"p", "q", "r", "s", "t", "u">>

PrintSchemas ==
    {Dataclass("P", [i \in 1..Len(l) |-> Field(PrintFieldNames[i], l[i], FALSE)]) :
        l \in Lists(PrintTypes, MaxPrintFields)}

---------------------------------------------------------------------------
(* the calls *)

Init ==
    /\ pc = "call"
    /\ op = "none"
    /\ strict = TRUE
    /\ ret = NoArg
    /\ created_dataclasses = <<>>
    /\ \/ cls \in DeclaredSchemas /\ data \in DecodeData /\ dcname = NoArg
       \/ cls \in ListSchemas /\ data \in ListData /\ dcname = NoArg
       \/ cls \in DictSchemas /\ data \in DictData /\ dcname = NoArg
       \/ cls \in NestedSchemas /\ data \in NestedData /\ dcname = NoArg
       \/ cls = NoArg /\ data \in InferData /\ dcname \in {PyStr(n) : n \in InferNames}
       \/ cls \in PrintSchemas /\ data = NoArg /\ dcname = NoArg
    /\ caller_data = data

\* parse_dc_typecheck(cls, data, ignore_unknows)
ParseDcTypecheck ==
    /\ pc = "call" /\ cls # NoArg /\ data # NoArg
    /\ \E ignore_unknows \in BOOLEAN :
          /\ strict' = ~ignore_unknows
          /\ ret' = parse_dc_typecheck(cls, data, ignore_unknows)
          /\ caller_data' = parse_dc_typecheck_data(cls, caller_data, ignore_unknows)
    /\ op' = "parse_dc_typecheck"
    /\ pc' = "done"
    /\ UNCHANGED <<cls, dcname, data, created_dataclasses>>

\* parse_dc(dc, data, strict)
ParseDc ==
    /\ pc = "call" /\ cls # NoArg /\ data # NoArg
    /\ \E strict_ \in BOOLEAN :
          /\ strict' = strict_
          /\ ret' = parse_dc(cls, data, strict_)
          /\ caller_data' = parse_dc_data(cls, caller_data, strict_)
    /\ op' = "parse_dc"
    /\ pc' = "done"
    /\ UNCHANGED <<cls, dcname, data, created_dataclasses>>

\* reqguard.parse_dc(cls, data)
ReqguardParseDc ==
    /\ pc = "call" /\ cls # NoArg /\ data # NoArg
    /\ ret' = reqguard_parse_dc(cls, data)
    /\ strict' = TRUE
    /\ op' = "reqguard.parse_dc"
    /\ pc' = "done"
    /\ UNCHANGED <<cls, dcname, data, created_dataclasses, caller_data>>

\* fromdict(dcname, data)
FromDict ==
    /\ pc = "call" /\ dcname # NoArg
    /\ LET r == fromdict(dcname.s, data, created_dataclasses)
       IN  /\ ret' = r.ret
           /\ created_dataclasses' = r.reg
    /\ op' = "fromdict"
    /\ pc' = "done"
    /\ UNCHANGED <<cls, dcname, data, strict, caller_data>>

\* parse_dc_typecheck(fromdict(dcname, data), data): the sample decoded under
\* the dataclass fromdict made of it
TypecheckInferred ==
    /\ pc = "done" /\ op = "fromdict" /\ ~IsRaise(ret)
    /\ cls' = ret
    /\ ret' = parse_dc_typecheck(ret, data, FALSE)
    /\ caller_data' = parse_dc_typecheck_data(ret, caller_data, FALSE)
    /\ strict' = TRUE
    /\ op' = "parse_dc_typecheck"
    /\ pc' = "done"
    /\ UNCHANGED <<dcname, data, created_dataclasses>>

\* print_dc(dcroot)
PrintDc ==
    /\ pc = "call" /\ cls # NoArg /\ data = NoArg
    /\ ret' = [t |-> "text", lines |-> print_dc(cls)]
    /\ op' = "print_dc"
    /\ pc' = "done"
    /\ UNCHANGED <<cls, dcname, data, strict, created_dataclasses, caller_data>>

Next ==
    \/ ParseDcTypecheck \/ ParseDc \/ ReqguardParseDc
    \/ FromDict \/ TypecheckInferred \/ PrintDc

Spec == Init /\ [][Next]_vars

---------------------------------------------------------------------------
(* fromdict called again and again on the one module-level registry *)

\* the names and samples of the repeated calls
RegistryNames == {"Root", "a", "b"}

RegistryData ==
    {PyDict(<< <<"a", PyInt(1)>> >>),
     PyDict(<< <<"a", PyDict(<< <<"a", PyStr("x")>> >>)>> >>),
     PyDict(<< <<"a", PyDict(<< <<"b", PyFloat(15)>> >>)>>, <<"a b", PyInt(1)>> >>),
     PyDict(<< <<"a", PyDict(<< <<"a", PyDict(<< <<"a", PyBool(TRUE)>> >>)>> >>)>> >>),
     PyDict(<< <<"b", PyDict(<< <<"a", PyInt(1)>> >>)>>, <<"a", PyList(<<>>)>> >>)}

\* the module is imported, _created_dataclasses = {}, and fromdict is called
RegistryInit ==
    /\ pc = "call"
    /\ op = "none"
    /\ strict = TRUE
    /\ ret = NoArg
    /\ created_dataclasses = <<>>
    /\ cls = NoArg
    /\ data \in RegistryData
    /\ dcname \in {PyStr(n) : n \in RegistryNames}
    /\ caller_data = data

\* the caller calls fromdict once more, with another name and sample; the
\* registry is the module's and stays
FromDictAgain ==
    /\ pc = "done" /\ op = "fromdict"
    /\ data' \in RegistryData
    /\ dcname' \in {PyStr(n) : n \in RegistryNames}
    /\ caller_data' = data'
    /\ ret' = NoArg
    /\ pc' = "call"
    /\ UNCHANGED <<op, cls, strict, created_dataclasses>>

RegistryNext == FromDict \/ FromDictAgain

SpecRegistry == RegistryInit /\ [][RegistryNext]_vars

---------------------------------------------------------------------------
(* what the claims speak of *)

Done(f) == pc = "done" /\ op = f

Decoded == Done("parse_dc_typecheck") \/ Done("parse_dc")

Items == data.kv

ItemKey(i) == Items[i][1]

ItemValue(i) == Items[i][2]

\* the i-th key after private-marker normalization
Normalized(i) == Mangle(cls.name, ItemKey(i))

\* the i-th key is no declared field of the schema
UnknownAt(i) == ~HasField(cls, Normalized(i))

\* the i-th value is given to a declared field and its conversion fails
ConversionFailsAt(i) ==
    /\ ~UnknownAt(i)
    /\ ItemValue(i) # None
    /\ IsRaise(ConvertField(cls, FieldType(cls, Normalized(i)), ItemValue(i)))

\* the i-th item makes parse_dc_typecheck fail under the policy of the call
FailsAt(i) == (strict /\ UnknownAt(i)) \/ ConversionFailsAt(i)

NoEarlierFailure(i) == \A j \in 1..(i - 1) : ~FailsAt(j)

Attr(obj, name) == Lookup(obj.attrs, name)

IsOptional(T) == T.k = "Union" /\ \E i \in 1..Len(T.args) : T.args[i] = NoneType

IsScalarClass(T) == T.k = "class" /\ T.name \in ScalarNames

---------------------------------------------------------------------------
(* C1 *)

\* the raw value has the shape the type declares: a scalar its constructor
\* accepts, or a mapping whose keys are exactly the fields of the record
RECURSIVE ExactMatch(_, _)
ExactMatch(T, v) ==
    IF is_dataclass(T)
    THEN /\ v.t = "dict"
         /\ Len(v.kv) = Len(T.fields)
         /\ \A i \in 1..Len(T.fields) :
               /\ HasKey(v.kv, T.fields[i].name)
               /\ ExactMatch(T.fields[i].type, Lookup(v.kv, T.fields[i].name))
    ELSE /\ IsScalarClass(T)
         /\ v.t \in ScalarNames
         /\ ~IsRaise(Call(T, v))

\* the raw value passed through the declared constructors, field by field
RECURSIVE Through(_, _)
Through(T, v) ==
    IF is_dataclass(T)
    THEN Instance(T.name,
             [i \in 1..Len(T.fields) |->
                 <<T.fields[i].name,
                   Through(T.fields[i].type, Lookup(v.kv, T.fields[i].name))>>])
    ELSE Call(T, v)

\* C1: under Strict, a mapping whose keys are exactly the declared fields, with
\* values of the declared shapes, decodes to the record whose every field,
\* nested records included, is the input passed through the field's constructor.
C1_StrictDecodeAppliesConstructors ==
    (Done("parse_dc_typecheck") /\ strict /\ ExactMatch(cls, data))
        => ret = Through(cls, data)

---------------------------------------------------------------------------
(* C2 *)

UnknownFieldError(i) ==
    [t |-> "raise", exc |-> "TypeError",
     info |-> [msg |-> "Unknow field {} for {}. Expected one of ({})",
               key |-> Normalized(i), cls |-> cls.name,
               expected |-> [j \in 1..Len(cls.fields) |-> cls.fields[j].name]]]

\* C2 as stated: under Strict, whatever the other keys are, any key that is
\* not a declared field makes decode fail with the UnknownField error that
\* names that key and lists the declared fields in order.
C2_AnyUnknownKeyIsReported ==
    (Done("parse_dc_typecheck") /\ strict)
        => \A i \in 1..Len(Items) : UnknownAt(i) => ret = UnknownFieldError(i)

\* C2 amended: under Strict, a key that is not a declared field, whatever its
\* value, makes decode fail and return no record; the error is the
\* UnknownField error of that key when no earlier item of the mapping fails.
C2_FirstUnknownKeyIsReported ==
    (Done("parse_dc_typecheck") /\ strict)
        => \A i \in 1..Len(Items) :
              UnknownAt(i) =>
                 /\ IsRaise(ret)
                 /\ NoEarlierFailure(i) => ret = UnknownFieldError(i)

\* an unknown key with a null value, after a key that decodes, is reported
C2_Witness ==
    /\ Done("parse_dc_typecheck") /\ strict
    /\ Len(Items) = 2
    /\ ~FailsAt(1) /\ UnknownAt(2) /\ ItemValue(2) = None
    /\ ret = UnknownFieldError(2)

---------------------------------------------------------------------------
(* C3 *)

\* the key is a declared field, as it stands or after normalization
Declared(k) == HasField(cls, k) \/ HasField(cls, Mangle(cls.name, k))

Without(i) == PyDict(SubSeq(Items, 1, i - 1) \o SubSeq(Items, i + 1, Len(Items)))

DecodeAgain(d) ==
    IF op = "parse_dc" THEN parse_dc(cls, d, strict)
    ELSE parse_dc_typecheck(cls, d, ~strict)

\* C3: under Lenient, a top-level key that is not a declared field is dropped:
\* decode returns the record it returns for the mapping without that key.
C3_LenientDropsUnknownKey ==
    (Decoded /\ ~strict)
        => \A i \in 1..Len(Items) :
              (~Declared(ItemKey(i)) /\ DecodeAgain(Without(i)).t = "object")
                 => ret = DecodeAgain(Without(i))

---------------------------------------------------------------------------
(* C4 *)

GivenNonNull(name) ==
    \E i \in 1..Len(Items) : Normalized(i) = name /\ ItemValue(i) # None

\* every item is given to a declared field and converts, and every field that
\* is not Optional and has no default is given
NothingElseWrong ==
    /\ \A i \in 1..Len(Items) : ~UnknownAt(i) /\ ~ConversionFailsAt(i)
    /\ \A j \in 1..Len(cls.fields) :
          (~IsOptional(cls.fields[j].type) /\ ~cls.fields[j].default)
             => GivenNonNull(cls.fields[j].name)

\* C4: an Optional field that is absent or null, with or without a default,
\* decodes to None in the record.
C4_OptionalFieldBecomesNone ==
    (Decoded /\ NothingElseWrong)
        => \A j \in 1..Len(cls.fields) :
              (IsOptional(cls.fields[j].type) /\ ~GivenNonNull(cls.fields[j].name))
                 => /\ ret.t = "object"
                    /\ Attr(ret, cls.fields[j].name) = None


---------------------------------------------------------------------------
(* C5 *)

\* the type whose constructor a scalar field applies: the declared class, or
\* the one class an Optional of it unpacks to
ScalarTypeAt(i) ==
    LET T == FieldType(cls, Normalized(i))
        U == IF T.k = "Union" THEN unpack_union(T) ELSE T
    IN IF ~IsRaise(U) /\ IsScalarClass(U) THEN U ELSE NoArg

\* the i-th item goes to a scalar field whose constructor rejects it
ScalarRejectsAt(i) ==
    /\ ~UnknownAt(i)
    /\ ItemValue(i) # None
    /\ ScalarTypeAt(i) # NoArg
    /\ IsRaise(Call(ScalarTypeAt(i), ItemValue(i)))

Rejection(i) == Call(ScalarTypeAt(i), ItemValue(i))

\* C5 as stated: when a scalar field's constructor rejects the raw value,
\* decode fails with a FieldCoercion error carrying the schema name, the field
\* name, the raw value and the inner error's message.
C5_CoercionErrorNamesField ==
    Done("parse_dc_typecheck")
        => \A i \in 1..Len(Items) :
              (ScalarRejectsAt(i) /\ NoEarlierFailure(i))
                 => /\ IsRaise(ret)
                    /\ ret.info.cls = cls.name
                    /\ ret.info.value = repr(ItemValue(i))
                    /\ ret.info.inner = Rejection(i).info
                    /\ "field" \in DOMAIN ret.info
                    /\ ret.info.field = Normalized(i)

\* C5 amended: when a scalar field's constructor rejects the raw value with a
\* ValueError, decode fails with a TypeError carrying the schema name, the
\* repr of the raw value, the name of the declared type and the inner error's
\* message, and nothing else: the field name is not in it. Any other
\* rejection leaves decode as the constructor's own error.
C5_CoercionErrorNamesSchemaAndType ==
    Done("parse_dc_typecheck")
        => \A i \in 1..Len(Items) :
              (ScalarRejectsAt(i) /\ NoEarlierFailure(i))
                 => IF Rejection(i).exc = "ValueError"
                    THEN ret = [t |-> "raise", exc |-> "TypeError",
                                info |-> [msg |-> "in dataclass {}, {} is not {}: {}",
                                          cls |-> cls.name,
                                          value |-> repr(ItemValue(i)),
                                          type |-> ScalarTypeAt(i).name,
                                          inner |-> Rejection(i).info]]
                    ELSE ret = Rejection(i)

\* an int field given a string that is no number, after an item that decodes
C5_Witness ==
    /\ Done("parse_dc_typecheck")
    /\ Len(Items) = 2
    /\ ~FailsAt(1) /\ ScalarRejectsAt(2)
    /\ ItemValue(2) = PyStr("x")
    /\ Rejection(2).exc = "ValueError"
    /\ ret.exc = "TypeError" /\ ret.info.type = "int"

---------------------------------------------------------------------------
(* C6 *)

\* the element type of a list field, NoArg when the field is no list
ElemTypeAt(i) ==
    LET T == FieldType(cls, Normalized(i))
    IN IF T.k = "List" /\ ~IsRaise(unpack_union(T)) THEN unpack_union(T) ELSE NoArg

\* the i-th item is a sequence for a list field, and the element constructor
\* rejects its j-th element and none before it
FirstRejectedElem(i, j) ==
    /\ ~UnknownAt(i)
    /\ ElemTypeAt(i) # NoArg
    /\ ItemValue(i).t = "list"
    /\ j \in 1..Len(ItemValue(i).items)
    /\ IsRaise(Call(ElemTypeAt(i), ItemValue(i).items[j]))
    /\ \A h \in 1..(j - 1) : ~IsRaise(Call(ElemTypeAt(i), ItemValue(i).items[h]))

\* C6: a list field's elements go through the element constructor in order;
\* when one fails, decode fails with a coercion error of the schema's list
\* field whose inner error is that of the first failing element.
C6_ListFailureReportsFirstElement ==
    Done("parse_dc_typecheck")
        => \A i \in 1..Len(Items) :
              \A j \in 1..MaxListLen :
                 (FirstRejectedElem(i, j) /\ NoEarlierFailure(i))
                    => /\ IsRaise(ret)
                       /\ ret.exc = "TypeError"
                       /\ "cls" \in DOMAIN ret.info
                       /\ ret.info.cls = cls.name
                       /\ "inner" \in DOMAIN ret.info
                       /\ ret.info.inner = Call(ElemTypeAt(i), ItemValue(i).items[j]).info

---------------------------------------------------------------------------
(* C7 *)

IsConstructionError(r) ==
    /\ IsRaise(r)
    /\ r.exc = "TypeError"
    /\ r.info.msg = "while calling {}(**data) with this data {}: {}"
    /\ r.info.cls = cls.name

\* some field without a default is never assigned: absent, or present as null
SomeRequiredFieldUnassigned ==
    \E j \in 1..Len(cls.fields) :
        ~cls.fields[j].default /\ ~GivenNonNull(cls.fields[j].name)

---------------------------------------------------------------------------
(* C8 *)

\* a raw value built only from scalars, nested objects and lists whose
\* elements all share one kind
RECURSIVE InDomain(_)
InDomain(v) ==
    IF v.t = "dict" THEN \A i \in 1..Len(v.kv) : InDomain(v.kv[i][2])
    ELSE IF v.t = "list"
    THEN /\ \A i \in 1..Len(v.items) : InDomain(v.items[i])
         /\ Cardinality({v.items[i].t : i \in 1..Len(v.items)}) <= 1
    ELSE v.t \in ScalarNames

\* C8: for a raw object built only from scalars, nested objects and lists of
\* one kind, with any strings as keys, fromdict succeeds and
\* parse_dc_typecheck(fromdict("Root", data), data) succeeds.
C8_InferThenDecodeSucceeds ==
    /\ (Done("fromdict") /\ InDomain(data)) => ~IsRaise(ret)
    /\ (Done("parse_dc_typecheck") /\ dcname # NoArg /\ InDomain(data))
          => ret.t = "object"

---------------------------------------------------------------------------
(* C9 *)

Retained(v) == v.t \in {"dict", "list"} \cup ScalarNames

Kind(v) == [k |-> "class", name |-> v.t]

\* the schema is the one the claim describes for the mapping
RECURSIVE InferredAs(_, _, _)
InferredAs(dc, name, d) ==
    LET kept == SelectSeq(d.kv, LAMBDA item : Retained(item[2]))
    IN  /\ "k" \in DOMAIN dc
        /\ dc.k = "dataclass"
        /\ dc.name = name
        /\ Len(dc.fields) = Len(kept)
        /\ \A i \in 1..Len(kept) :
              LET v == kept[i][2]
                  T == dc.fields[i].type
              IN  /\ dc.fields[i].name = kept[i][1]
                  /\ IF v.t = "dict" THEN InferredAs(T, kept[i][1], v)
                     ELSE IF v.t = "list"
                     THEN IF Len(v.items) = 0
                          THEN T = [k |-> "List", args |-> <<[k |-> "class", name |-> "Any"]>>]
                          ELSE IF \A j \in 1..Len(v.items) : v.items[j].t = v.items[1].t
                          THEN T = [k |-> "List", args |-> <<Kind(v.items[1])>>]
                          ELSE T = [k |-> "Tuple",
                                    args |-> [j \in 1..Len(v.items) |-> Kind(v.items[j])]]
                     ELSE T = Kind(v)

\* every retained key, at every depth, can name a field
RECURSIVE KeysAreFieldNames(_)
KeysAreFieldNames(d) ==
    \A i \in 1..Len(d.kv) :
        Retained(d.kv[i][2])
           => /\ d.kv[i][1] \notin NonIdentifiers \cup Keywords
              /\ d.kv[i][2].t = "dict" => KeysAreFieldNames(d.kv[i][2])

---------------------------------------------------------------------------
(* C10 *)

\* the definition of D, with the definitions of the records it refers to
\* before its header, is in the text and ends at line e
RECURSIVE Rendered(_, _, _)
Rendered(D, text, e) ==
    LET n == Len(D.fields)
        h == e - n - 1
    IN  /\ h >= 1 /\ e <= Len(text)
        /\ text[h] = "@dataclass"
        /\ text[h + 1] = "class " \o D.name \o ":"
        /\ \A i \in 1..n :
              /\ text[h + 1 + i] =
                    "   " \o D.fields[i].name \o ": " \o
                    (IF D.fields[i].type.k \in {"class", "dataclass"}
                     THEN D.fields[i].type.name ELSE D.fields[i].type.k)
              /\ D.fields[i].type.k = "dataclass"
                    => \E e2 \in 1..(h - 1) : Rendered(D.fields[i].type, text, e2)

\* C10: in the output of print_dc, for every Record field at any depth the
\* child's whole definition, itself preceded by its children's, comes before
\* the parent's header, and each definition's header and field lines are
\* contiguous and in declared order, the last definition being the root's.
C10_ChildrenPrecedeParent ==
    Done("print_dc") => Rendered(cls, ret.lines, Len(ret.lines))

\* a parent with two Record fields around a scalar field, one child nested
C10_Witness ==
    /\ Done("print_dc")
    /\ Len(cls.fields) = 3
    /\ cls.fields[1].type.k = "dataclass"
    /\ \E i \in 1..Len(cls.fields[1].type.fields) :
          cls.fields[1].type.fields[i].type.k = "dataclass"
    /\ cls.fields[2].type.k = "class"
    /\ cls.fields[3].type.k = "dataclass"
    /\ Len(ret.lines) > 3 + 2


---------------------------------------------------------------------------
(* C11 *)

\* C11: decode never modifies the raw mapping it is given: after parse_dc or
\* parse_dc_typecheck returned or failed, under either policy, the caller's
\* mapping and everything nested in it holds what it held before the call.
C11_DecodeLeavesDataAlone ==
    Decoded => caller_data = data

\* parse_dc under Lenient renamed a private-marker key, or dropped an unknown
\* key next to a nested mapping that it replaced by a record in the result
C11_Witness ==
    /\ Done("parse_dc") /\ ~strict
    /\ ret.t = "object"
    /\ Len(Items) = 2
    /\ \/ /\ StartsWithDunder(ItemKey(1))
          /\ ~UnknownAt(1)
          /\ Attr(ret, Normalized(1)) = ItemValue(1)
       \/ /\ ItemValue(1).t = "dict"
          /\ ~UnknownAt(1)
          /\ Attr(ret, ItemKey(1)).t = "object"
          /\ ~Declared(ItemKey(2))
    /\ caller_data = data


---------------------------------------------------------------------------
(* C12 *)

\* the mapping without the keys that are no declared fields of the record
\* type, at every depth
RECURSIVE Pruned(_, _)
Pruned(T, v) ==
    IF ~is_dataclass(T) \/ v.t # "dict" THEN v
    ELSE LET kept == SelectSeq(v.kv, LAMBDA item : HasField(T, Mangle(T.name, item[1])))
         IN  PyDict([i \in 1..Len(kept) |->
                       <<kept[i][1],
                         Pruned(FieldType(T, Mangle(T.name, kept[i][1])), kept[i][2])>>])

\* C12: decoding a Record field recurses with the caller's policy: under
\* Lenient an unrecognized key in a nested mapping, at any depth, is dropped
\* and the decode succeeds like that of the mapping without such keys.
C12_LenientDropsNestedUnknownKey ==
    (/\ Decoded /\ ~strict
     /\ \A i \in 1..Len(Items) : ~UnknownAt(i)
     /\ DecodeAgain(Pruned(cls, data)).t = "object")
        => ret = DecodeAgain(Pruned(cls, data))


---------------------------------------------------------------------------
(* C13 *)

\* the value the call assigns to the field a raw value is given to
Assigned(i) ==
    IF op = "parse_dc_typecheck"
    THEN ConvertField(cls, FieldType(cls, Normalized(i)), ItemValue(i))
    ELSE IF is_dataclass(FieldType(cls, Normalized(i)))
    THEN parse_dc(FieldType(cls, Normalized(i)), ItemValue(i), TRUE)
    ELSE ItemValue(i)

IsUnknownFieldError(r, i) ==
    /\ IsRaise(r)
    /\ r.exc = "TypeError"
    /\ "key" \in DOMAIN r.info
    /\ r.info.key \in {ItemKey(i), Normalized(i)}
    /\ r.info.cls = cls.name

\* C13: a raw key beginning with '__' is looked up under '_<SchemaName>__rest':
\* if that is a declared field the value is assigned to it; if not, the key
\* is treated like any other unknown key, UnknownField under Strict and
\* dropped under Lenient, in both parse_dc and parse_dc_typecheck.
C13_PrivateKeyLookup ==
    Decoded
        => \A i \in 1..Len(Items) :
              StartsWithDunder(ItemKey(i)) =>
                 /\ (~UnknownAt(i) /\ ItemValue(i) # None /\ ret.t = "object")
                       => Attr(ret, Normalized(i)) = Assigned(i)
                 /\ (UnknownAt(i) /\ strict /\ i = 1)
                       => IsUnknownFieldError(ret, i)
                 /\ (UnknownAt(i) /\ ~strict /\ DecodeAgain(Without(i)).t = "object")
                       => ret = DecodeAgain(Without(i))


---------------------------------------------------------------------------
(* C14 *)

DecodeOps == {"parse_dc_typecheck", "parse_dc", "reqguard.parse_dc"}

\* the function that decodes a record nested in a record decoded by f
NestedOp(f) == IF f = "reqguard.parse_dc" THEN f ELSE "parse_dc"

\* f(T, v), with the policy st where f has one
DecodeIn(f, st, T, v) ==
    CASE f = "parse_dc_typecheck" -> parse_dc_typecheck(T, v, ~st)
      [] f = "reqguard.parse_dc" -> reqguard_parse_dc(T, v)
      [] OTHER -> parse_dc(T, v, st)

\* what one round of f's loop over the item (k0, v) alone comes to
ItemRaised(f, st, T, k0, v) ==
    CASE f = "parse_dc_typecheck" -> TypecheckItem(T, k0, v, ~st)
      [] f = "reqguard.parse_dc" -> reqguard_item(T, k0, v)
      [] OTHER -> parse_dc_loop(T, << <<k0, v>> >>, 1, << <<k0, v>> >>, st)

\* the field of T the raw key goes to
FieldOf(f, T, k0) ==
    IF f = "parse_dc" /\ HasField(T, k0) THEN k0 ELSE Mangle(T.name, k0)

\* the record type f decodes the item's value with, NoArg when there is none
RecordTypeOf(f, T, k0, v) ==
    IF f = "parse_dc"
    THEN IF HasField(T, FieldOf(f, T, k0)) /\ is_dataclass(FieldType(T, FieldOf(f, T, k0)))
         THEN FieldType(T, FieldOf(f, T, k0)) ELSE NoArg
    ELSE NestedType(T, k0, v)

\* the first item of the mapping whose round raises, 0 when there is none
FirstFailing(f, st, T, v) ==
    IF v.t # "dict" \/ \A i \in 1..Len(v.kv) : ~IsRaise(ItemRaised(f, st, T, v.kv[i][1], v.kv[i][2]))
    THEN 0
    ELSE CHOOSE i \in 1..Len(v.kv) :
            /\ IsRaise(ItemRaised(f, st, T, v.kv[i][1], v.kv[i][2]))
            /\ \A j \in 1..(i - 1) : ~IsRaise(ItemRaised(f, st, T, v.kv[j][1], v.kv[j][2]))

\* the (schema, field) of every frame that encloses the record in which the
\* decode fails, from the outermost down; empty when it fails in the root
\* record or not at all
RECURSIVE Enclosing(_, _, _, _)
Enclosing(f, st, T, v) ==
    LET i == FirstFailing(f, st, T, v)
    IN  IF i = 0 THEN {}
        ELSE LET FT == RecordTypeOf(f, T, v.kv[i][1], v.kv[i][2])
             IN  IF FT = NoArg THEN {}
                 ELSE {<<T.name, FieldOf(f, T, v.kv[i][1])>>}
                      \cup Enclosing(NestedOp(f), TRUE, FT, v.kv[i][2])

\* what the decode call of the innermost failing record raises
RECURSIVE Innermost(_, _, _, _)
Innermost(f, st, T, v) ==
    LET i == FirstFailing(f, st, T, v)
    IN  IF i = 0 THEN DecodeIn(f, st, T, v)
        ELSE LET FT == RecordTypeOf(f, T, v.kv[i][1], v.kv[i][2])
             IN  IF FT = NoArg THEN DecodeIn(f, st, T, v)
                 ELSE Innermost(NestedOp(f), TRUE, FT, v.kv[i][2])

\* the name of the innermost failing record's schema
RECURSIVE FailingRecord(_, _, _, _)
FailingRecord(f, st, T, v) ==
    LET i == FirstFailing(f, st, T, v)
    IN  IF i = 0 THEN T.name
        ELSE LET FT == RecordTypeOf(f, T, v.kv[i][1], v.kv[i][2])
             IN  IF FT = NoArg THEN T.name
                 ELSE FailingRecord(NestedOp(f), TRUE, FT, v.kv[i][2])

\* the schema and field names an error message names
RECURSIVE Named(_)
Named(info) ==
    (IF "cls" \in DOMAIN info THEN {info.cls} ELSE {})
    \cup (IF "key" \in DOMAIN info THEN {info.key} ELSE {})
    \cup (IF "missing" \in DOMAIN info
          THEN {info.missing[i] : i \in 1..Len(info.missing)} ELSE {})
    \cup (IF "inner" \in DOMAIN info THEN Named(info.inner) ELSE {})

\* C14 as stated: when the failure occurs in a record nested below the root,
\* the error of the outermost decode call names every enclosing schema and
\* field from the outermost schema down to the failing leaf.
C14_ErrorNamesEnclosingPath ==
    (pc = "done" /\ op \in DecodeOps /\ Enclosing(op, strict, cls, data) # {})
        => /\ IsRaise(ret)
           /\ \A p \in Enclosing(op, strict, cls, data) :
                 p[1] \in Named(ret.info) /\ p[2] \in Named(ret.info)

\* C14 amended: the error of the outermost decode call is the error raised
\* by the decode call of the innermost failing record, unchanged: it holds
\* that call's message (the low-level conversion message when a conversion
\* failed), names at most the schema of that record, and no enclosing schema
\* of another name.
C14_InnermostErrorPropagatesUnchanged ==
    (pc = "done" /\ op \in DecodeOps /\ Enclosing(op, strict, cls, data) # {})
        => /\ IsRaise(ret)
           /\ ret = Innermost(op, strict, cls, data)
           /\ \A p \in Enclosing(op, strict, cls, data) :
                 p[1] # FailingRecord(op, strict, cls, data) => p[1] \notin Named(ret.info)

\* a conversion fails two records below the root
C14_Witness ==
    /\ Done("reqguard.parse_dc")
    /\ cls = Top
    /\ Enclosing(op, strict, cls, data) = {<<"Top", "mid">>, <<"Mid", "leaf">>}
    /\ IsRaise(ret)
    /\ ret.info.cls = "Leaf"
    /\ "inner" \in DOMAIN ret.info


---------------------------------------------------------------------------
(* C15 *)

IsDictFieldAt(i) ==
    /\ ~UnknownAt(i)
    /\ FieldType(cls, Normalized(i)).k = "Dict"
    /\ ItemValue(i).t = "dict"

\* what the constructors raise on a pair: the key's goes first
PairRejection(K, V, pair) ==
    IF IsRaise(Call(K, PyStr(pair[1]))) THEN Call(K, PyStr(pair[1])) ELSE Call(V, pair[2])

\* the j-th pair of the i-th value is the first one a constructor rejects
FirstRejectedPair(i, j) ==
    LET T == FieldType(cls, Normalized(i))
        pairs == ItemValue(i).kv
    IN  /\ j \in 1..Len(pairs)
        /\ IsRaise(PairRejection(T.args[1], T.args[2], pairs[j]))
        /\ \A h \in 1..(j - 1) : ~IsRaise(PairRejection(T.args[1], T.args[2], pairs[h]))

\* C15: for a MapOf(K, V) field, when the key constructor or the value
\* constructor rejects a pair, decode fails with a coercion error, a
\* TypeError, of the schema's field whose inner error is that of the pair
\* that fails first in iteration order.
C15_DictFailureIsCoercionError ==
    (Done("parse_dc_typecheck") \/ Done("reqguard.parse_dc"))
        => \A i \in 1..Len(Items) :
              \A j \in 1..(MaxKeys + 1) :
                 (IsDictFieldAt(i) /\ FirstRejectedPair(i, j) /\ NoEarlierFailure(i))
                    => LET T == FieldType(cls, Normalized(i))
                       IN  /\ IsRaise(ret)
                           /\ ret.exc = "TypeError"
                           /\ "cls" \in DOMAIN ret.info
                           /\ ret.info.cls = cls.name
                           /\ "inner" \in DOMAIN ret.info
                           /\ ret.info.inner =
                                 PairRejection(T.args[1], T.args[2], ItemValue(i).kv[j]).info

---------------------------------------------------------------------------
(* C16 *)

IsListOfOptional(T) == T.k = "List" /\ IsOptional(T.args[1])

\* the schema with every ListOf(Optional(T)) field declared ListOf(T)
StripOptional(dc) ==
    [dc EXCEPT !.fields =
        [i \in 1..Len(dc.fields) |->
            IF IsListOfOptional(dc.fields[i].type)
            THEN [dc.fields[i] EXCEPT !.type =
                     [k |-> "List", args |-> <<unpack_union(dc.fields[i].type.args[1])>>]]
            ELSE dc.fields[i]]]

\* the mapping with the null elements taken out of the sequences given to
\* ListOf(Optional(T)) fields
StripNulls(dc, d) ==
    PyDict([i \in 1..Len(d.kv) |->
        IF /\ HasField(dc, Mangle(dc.name, d.kv[i][1]))
           /\ IsListOfOptional(FieldType(dc, Mangle(dc.name, d.kv[i][1])))
           /\ d.kv[i][2].t = "list"
        THEN <<d.kv[i][1], PyList(SelectSeq(d.kv[i][2].items, LAMBDA x : x # None))>>
        ELSE d.kv[i]])

\* C16: a field declared ListOf(Optional(T)) decodes exactly like ListOf(T)
\* applied to the input sequence with its null elements removed.
C16_ListOfOptionalSkipsNulls ==
    (/\ Done("parse_dc_typecheck")
     /\ \E i \in 1..Len(cls.fields) : IsListOfOptional(cls.fields[i].type))
        => LET expected == parse_dc_typecheck(StripOptional(cls), StripNulls(cls, data), ~strict)
           IN  IF expected.t = "object" THEN ret = expected ELSE IsRaise(ret)


---------------------------------------------------------------------------
(* C17 *)

RECURSIVE Completions(_, _)
RECURSIVE ChildCompletions(_, _)

\* the inferences fromdict(name, d) completes, in the order they complete:
\* <<name, definition>> of every nested mapping before that of the mapping
\* that holds it, up to the first inference that fails
Completions(name, d) ==
    LET l == ChildCompletions(d.kv, 1)
        dc == fromdict(name, d, <<>>).ret
    IN  IF l.failed \/ IsRaise(dc) THEN l.seq ELSE Append(l.seq, <<name, dc>>)

ChildCompletions(items, i) ==
    IF i > Len(items) THEN [seq |-> <<>>, failed |-> FALSE]
    ELSE IF items[i][2].t # "dict" THEN ChildCompletions(items, i + 1)
    ELSE LET c == Completions(items[i][1], items[i][2])
         IN  IF IsRaise(fromdict(items[i][1], items[i][2], <<>>).ret)
             THEN [seq |-> c, failed |-> TRUE]
             ELSE LET rest == ChildCompletions(items, i + 1)
                  IN  [seq |-> c \o rest.seq, failed |-> rest.failed]

CompletedUnder(seq, n) == {i \in 1..Len(seq) : seq[i][1] = n}

\* the definition of the last inference of seq completed under n
LastCompleted(seq, n) ==
    seq[CHOOSE i \in CompletedUnder(seq, n) : \A j \in CompletedUnder(seq, n) : j <= i][2]

RegistryKeys(reg) == {reg[i][1] : i \in 1..Len(reg)}

\* C17: every call of fromdict leaves the registry mapping each name to the
\* definition of the most recently completed inference under that name, as
\* root or as nested child, and every other name to what it had; when the
\* call returns D, the entry of its name is D, also when the sample holds a
\* nested mapping under a key equal to the name.
C17_RegistryKeepsLastCompleted ==
    [][FromDict =>
         LET seq == Completions(dcname.s, data)
             names == RegistryKeys(created_dataclasses)
                         \cup RegistryKeys(created_dataclasses')
                         \cup {seq[i][1] : i \in 1..Len(seq)}
         IN  /\ \A n \in names :
                   /\ HasKey(created_dataclasses', n)
                   /\ Lookup(created_dataclasses', n) =
                         IF CompletedUnder(seq, n) # {} THEN LastCompleted(seq, n)
                         ELSE Lookup(created_dataclasses, n)
                   /\ CompletedUnder(seq, n) = {} => HasKey(created_dataclasses, n)
             /\ ~IsRaise(ret') => Lookup(created_dataclasses', dcname.s) = ret'
    ]_vars

\* a later call named a has returned: its sample holds a mapping under the
\* key a, whose definition the entry a held for a while, and the entry Root
\* of an earlier call is still there
C17_Witness ==
    /\ Done("fromdict")
    /\ dcname = PyStr("a")
    /\ ~IsRaise(ret)
    /\ HasKey(data.kv, "a") /\ Lookup(data.kv, "a").t = "dict"
    /\ HasKey(created_dataclasses, "Root")
    /\ Lookup(created_dataclasses, "a") = ret
    /\ ret # fromdict("a", Lookup(data.kv, "a"), <<>>).ret

=============================================================================
